---- MODULE Spec2Model ----
(***************************************************************************)
(* A model of the RAGged chunking and retrieval-evaluation core:           *)
(*   src/src/chunking/fixed_token.py     fixed_token_chunk                 *)
(*   src/src/chunking/sliding_window.py  sliding_window_chunk              *)
(*   src/src/chunking/sentence_aware.py  sentence_aware_chunk              *)
(*   src/src/querier.py                  normalize, map_answers_to_chunks  *)
(*   src/src/evaluate_retrieval.py       evaluate_retrieval                *)
(*   src/src/chunk_router.py             chunk                             *)
(*   src/src/run_chunking.py             chunk_text, process_document, main*)
(*   src/src/run_ragged.py               main (the strategy loop)          *)
(*   src/src/vectorStore.py              create_collection, upsert_vector, *)
(*                                       search_vectors, delete_collection *)
(* Each function is a small state machine over the variables below; one    *)
(* specification per function (SpecFixed, SpecSliding, SpecSentence,       *)
(* SpecMapper, SpecEval, SpecRouter, SpecMain, SpecRepeat, SpecRagged,     *)
(* SpecVector) starts it on every input of a bounded set.                  *)
(***************************************************************************)
EXTENDS Integers, Sequences, FiniteSets, TLC

VARIABLES
    pc,             \* position of the running call
    text,           \* the document text (sentence_aware: its sentences)
    doc_id,         \* <<stem, extension>> of the document's file name
    config,         \* the configuration dict of the chunkers
    model_provider_map, \* model name -> provider
    emb_i,          \* index of the next entry of config["embedding"]
    all_token_ids,  \* ids the tokenizer returned for the current entry
    id_chunks,      \* fixed_token: id_chunks; sliding_window: chunks_of_ids
    start_idx,      \* sliding_window: start index of the next window
    chunks,         \* the chunk records appended so far
    error,          \* the exception that ended the call, or "none"
    sentence_objs,  \* sentence_aware: (text, start_char, end_char) triples
    sent_i,         \* sentence_aware: index of the next sentence
    buffer,         \* sentence_aware: buffered sentences
    buffer_tokens,  \* sentence_aware: token count of the buffer
    chunk_index,    \* sentence_aware: chunks emitted so far
    storage,        \* the files a listing returns, with what they hold
    qa_pairs,       \* querier: the QAPairs passed in
    file_i,         \* querier / evaluator: index of the next listed file
    mapped,         \* querier: the GoldLabels appended so far
    questions,      \* evaluator: gold labels of the current QA file
    q_i,            \* evaluator: index of the next question
    hits,           \* evaluator: hits returned for the last question
    metrics,        \* evaluator: the metrics dict
    route_strategy, \* router: the strategy name of the routed call
    doc_data,       \* run_chunking: the fields of the document, the type of its text, its source
    log,            \* run_chunking.main: the outcome logged for each listed file
    previous,       \* the chunker calls that returned, with their inputs and results
    collections,    \* vectorStore: collection name -> ids of its points
    upserted,       \* vectorStore: collection name -> ids upsert_vector returned for
    calls,          \* vectorStore: for each process, the call it is in and its next request
    strats,         \* run_ragged.main: cfg["strats"]
    dirs            \* run_ragged.main: the passes that left something in chunks/, golden_qs/ and the collection

chunkVars == <<text, doc_id, config, model_provider_map, emb_i, all_token_ids,
               id_chunks, start_idx, chunks>>
sentVars  == <<sentence_objs, sent_i, buffer, buffer_tokens, chunk_index>>
mapVars   == <<storage, qa_pairs, mapped>>
evalVars  == <<questions, q_i, hits, metrics>>
routeVars == <<route_strategy>>
mainVars  == <<doc_data, log>>
vecVars   == <<collections, upserted, calls>>
raggedVars == <<strats, dirs>>
otherVars == <<mainVars, previous, vecVars, raggedVars>>
vars == <<pc, error, file_i, chunkVars, sentVars, mapVars, routeVars, otherVars, evalVars>>

----------------------------------------------------------------------------
(* Bounds of the model *)

MaxLen == 10        \* longest id sequence
SmallLen == 3       \* longest id sequence chunked with several embedding entries
MaxTokens == 4      \* largest fixed_chunk_size
MaxEmb == 2         \* most entries of config["embedding"]
MaxSents == 3       \* most sentences of a document
MaxBudget == 4      \* largest sentence_max_tokens
MaxFiles == 2       \* most files of a storage listing
MaxQA == 2          \* most QAPairs of a document
MaxQuestions == 2   \* most gold labels of a QA file
MaxCalls == 3       \* most calls of a chunker in one process
MaxStrats == 3      \* most entries of cfg["strats"]
MaxPoints == 2      \* most point ids upsert_vector is called with

----------------------------------------------------------------------------
(* Python helpers *)

Min(a, b) == IF a < b THEN a ELSE b

\* s[a:b] of a Python list, for 0 <= a (indices count from 0, b is clamped)
Slice(s, a, b) == SubSeq(s, a + 1, Min(b, Len(s)))

\* list(range(start, stop, step)) for step # 0
RECURSIVE Range(_, _, _)
Range(start, stop, step) ==
    IF (step > 0 /\ start < stop) \/ (step < 0 /\ start > stop)
    THEN <<start>> \o Range(start + step, stop, step)
    ELSE <<>>

RECURSIVE Flatten(_)
Flatten(ss) == IF ss = <<>> THEN <<>> ELSE Head(ss) \o Flatten(Tail(ss))

RECURSIVE SumSeq(_)
SumSeq(s) == IF s = <<>> THEN 0 ELSE Head(s) + SumSeq(Tail(s))

\* os.path.splitext(doc_id)[0]
SplitExtStem(d) == d[1]

----------------------------------------------------------------------------
(* The tokenizer collaborator behind get_tokenizer (transformers, tiktoken) *)
(* as the chunkers use it. A text is a sequence of characters (numbers, 0   *)
(* the space). encode gives no id for a space, two ids for a character the  *)
(* provider's vocabulary splits and one id for any other; decode gives one  *)
(* character per id, and the huggingface tokenizer joins them with spaces.  *)

Providers == {"huggingface", "openai", "cohere"}
HFModel == "BAAI/bge-large-en"
OAModel == "text-embedding-3-small"
Space == 0

VocabId(c, provider) == IF provider = "openai" THEN 2 * c + 1 ELSE 2 * c
CharOf(id) == id \div 2
Splits(c, provider) ==
    \/ provider = "openai" /\ c % 3 = 1
    \/ provider = "huggingface" /\ c % 3 = 2

EncodeChar(c, provider) ==
    IF c = Space THEN <<>>
    ELSE IF Splits(c, provider) THEN <<VocabId(c, provider), VocabId(c, provider)>>
    ELSE <<VocabId(c, provider)>>

\* tokenizer.encode(text, add_special_tokens=False) / tokenizer.encode(text)
RECURSIVE Encode(_, _)
Encode(t, provider) ==
    IF t = <<>> THEN <<>>
    ELSE EncodeChar(Head(t), provider) \o Encode(Tail(t), provider)

\* sep.join(parts)
RECURSIVE Join(_, _)
Join(parts, sep) ==
    IF parts = <<>> THEN <<>>
    ELSE IF Len(parts) = 1 THEN Head(parts)
    ELSE Head(parts) \o sep \o Join(Tail(parts), sep)

\* tokenizer.decode(ids, skip_special_tokens=True) / tokenizer.decode(ids)
Decode(ids, provider) ==
    LET cs == [i \in 1..Len(ids) |-> <<CharOf(ids[i])>>]
    IN  IF provider = "openai" THEN Join(cs, <<>>) ELSE Join(cs, <<Space>>)

\* tokenizer.py get_tokenizer: the provider is compared in lower case, which
\* the provider names of the model already are
KnownProvider(provider) == provider \in {"huggingface", "openai"}

\* tokenizer.py count_tokens
count_tokens(t, provider) == Len(Encode(t, provider))

----------------------------------------------------------------------------
(* fixed_token_chunk *)

\* a comprehension that drops the last, shorter window
IdChunksDropTail(ids, max_tokens) ==
    IF max_tokens < 0 THEN <<>>
    ELSE [k \in 1..(Len(ids) \div max_tokens) |->
            Slice(ids, (k - 1) * max_tokens, k * max_tokens)]

\* the list comprehension of lines 29-32, for max_tokens # 0
IdChunks(ids, max_tokens) ==
    LET starts == Range(0, Len(ids), max_tokens)
    IN  [k \in 1..Len(starts) |-> Slice(ids, starts[k], starts[k] + max_tokens)]

\* the provider's model, lines 11-17
FTModel(provider) == IF provider = "huggingface" THEN HFModel ELSE OAModel

\* the loop of lines 33-55 over the windows from position idx (0-based):
\* the records appended, char_start being the offset carried into the loop
RECURSIVE DecodeChunks(_, _, _, _, _, _, _, _)
DecodeChunks(windows, idx, char_start, doc, code, strategy, model, provider) ==
    IF idx >= Len(windows) THEN <<>>
    ELSE LET token_id_list == windows[idx + 1]
             chunk_text == Decode(token_id_list, provider)
             char_end == char_start + Len(chunk_text)
         IN  << [chunk_id   |-> <<SplitExtStem(doc), code, idx + 1>>,
                 text       |-> chunk_text,
                 char_start |-> char_start,
                 char_end   |-> char_end,
                 strategy   |-> strategy,
                 source     |-> doc,
                 tokens     |-> (model :> Len(token_id_list))] >>
             \o DecodeChunks(windows, idx + 1, char_end + 1, doc, code, strategy,
                             model, provider)

FTEntry == config.embedding[emb_i]

\* lines 15-17: a provider that is neither huggingface nor openai is skipped
FTSkipProvider ==
    /\ pc = "ft_embedding"
    /\ emb_i <= Len(config.embedding)
    /\ FTEntry.provider \notin {"huggingface", "openai"}
    /\ emb_i' = emb_i + 1
    /\ UNCHANGED <<pc, error, file_i, text, doc_id, config, model_provider_map,
                   all_token_ids, id_chunks, start_idx, chunks,
                   sentVars, mapVars, routeVars, otherVars, evalVars>>

\* lines 19-55 for one embedding entry: encode, window, decode, append
FTChunkEntry ==
    /\ pc = "ft_embedding"
    /\ emb_i <= Len(config.embedding)
    /\ FTEntry.provider \in {"huggingface", "openai"}
    /\ config.fixed_chunk_size # 0
    /\ LET ids == Encode(text, FTEntry.provider)
           windows == IdChunks(ids, config.fixed_chunk_size)
       IN  /\ all_token_ids' = ids
           /\ id_chunks' = windows
           /\ chunks' = chunks \o DecodeChunks(windows, 0, 0, doc_id, "ft", "fixed_token",
                                               FTModel(FTEntry.provider), FTEntry.provider)
    /\ emb_i' = emb_i + 1
    /\ UNCHANGED <<pc, error, file_i, text, doc_id, config, model_provider_map,
                   start_idx, sentVars, mapVars, routeVars, otherVars, evalVars>>

\* line 31 with max_tokens = 0: range() raises ValueError
FTRangeError ==
    /\ pc = "ft_embedding"
    /\ emb_i <= Len(config.embedding)
    /\ FTEntry.provider \in {"huggingface", "openai"}
    /\ config.fixed_chunk_size = 0
    /\ all_token_ids' = Encode(text, FTEntry.provider)
    /\ pc' = "raised"
    /\ error' = "ValueError"
    /\ UNCHANGED <<file_i, text, doc_id, config, model_provider_map, emb_i,
                   id_chunks, start_idx, chunks, sentVars, mapVars, routeVars, otherVars, evalVars>>

\* line 56
FTReturn ==
    /\ pc = "ft_embedding"
    /\ emb_i > Len(config.embedding)
    /\ pc' = "returned"
    /\ UNCHANGED <<error, file_i, chunkVars, sentVars, mapVars, routeVars, otherVars, evalVars>>

NextFixed == FTSkipProvider \/ FTChunkEntry \/ FTRangeError \/ FTReturn

----------------------------------------------------------------------------
(* sliding_window_chunk *)

SWEntry == config.embedding[emb_i]

\* line 14: the entry's model
SWModel(emb) == IF emb.provider = "huggingface" THEN HFModel ELSE OAModel

\* lines 5-9: a non-positive stride is rejected
SWStrideError ==
    /\ pc = "sw_start"
    /\ config.fixed_chunk_size - config.overlap <= 0
    /\ pc' = "raised"
    /\ error' = "ValueError"
    /\ UNCHANGED <<file_i, chunkVars, sentVars, mapVars, routeVars, otherVars, evalVars>>

SWStrideOk ==
    /\ pc = "sw_start"
    /\ config.fixed_chunk_size - config.overlap > 0
    /\ pc' = "sw_embedding"
    /\ UNCHANGED <<error, file_i, chunkVars, sentVars, mapVars, routeVars, otherVars, evalVars>>

\* lines 16-18: a model that is not in model_provider_map is skipped
SWSkipModel ==
    /\ pc = "sw_embedding"
    /\ emb_i <= Len(config.embedding)
    /\ SWModel(SWEntry) \notin DOMAIN model_provider_map
    /\ emb_i' = emb_i + 1
    /\ UNCHANGED <<pc, error, file_i, text, doc_id, config, model_provider_map,
                   all_token_ids, id_chunks, start_idx, chunks,
                   sentVars, mapVars, routeVars, otherVars, evalVars>>

\* line 20: get_tokenizer raises ValueError for a provider it does not know
SWUnknownProvider ==
    /\ pc = "sw_embedding"
    /\ emb_i <= Len(config.embedding)
    /\ SWModel(SWEntry) \in DOMAIN model_provider_map
    /\ ~KnownProvider(SWEntry.provider)
    /\ pc' = "raised"
    /\ error' = "ValueError"
    /\ UNCHANGED <<file_i, chunkVars, sentVars, mapVars, routeVars, otherVars, evalVars>>

\* lines 23-26: an openai entry is skipped ("wrong provider")
SWWrongProvider ==
    /\ pc = "sw_embedding"
    /\ emb_i <= Len(config.embedding)
    /\ SWModel(SWEntry) \in DOMAIN model_provider_map
    /\ SWEntry.provider = "openai"
    /\ emb_i' = emb_i + 1
    /\ UNCHANGED <<pc, error, file_i, text, doc_id, config, model_provider_map,
                   all_token_ids, id_chunks, start_idx, chunks,
                   sentVars, mapVars, routeVars, otherVars, evalVars>>

\* lines 21-32: encode, then enter the windowing loop
SWEncode ==
    /\ pc = "sw_embedding"
    /\ emb_i <= Len(config.embedding)
    /\ SWModel(SWEntry) \in DOMAIN model_provider_map
    /\ SWEntry.provider = "huggingface"
    /\ all_token_ids' = Encode(text, SWEntry.provider)
    /\ id_chunks' = <<>>
    /\ start_idx' = 0
    /\ pc' = "sw_loop"
    /\ UNCHANGED <<error, file_i, text, doc_id, config, model_provider_map,
                   emb_i, chunks, sentVars, mapVars, routeVars, otherVars, evalVars>>

\* a window whose end index is one short
SWWindowOffByOne(ids, start, max_tokens) ==
    LET end_idx == IF start + max_tokens - 1 > Len(ids) THEN Len(ids)
                   ELSE start + max_tokens - 1
    IN  Slice(ids, start, end_idx)

\* lines 34-37: the window starting at start
SWWindowAt(ids, start, max_tokens) ==
    LET end_idx == IF start + max_tokens > Len(ids) THEN Len(ids)
                   ELSE start + max_tokens
    IN  Slice(ids, start, end_idx)

\* a stride with the overlap added instead of subtracted
SWStrideWide(max_tokens, overlap) == max_tokens + overlap

\* the stride of line 7
SWStride(max_tokens, overlap) == max_tokens - overlap

\* lines 33-38: one iteration of the while loop
SWWindow ==
    /\ pc = "sw_loop"
    /\ start_idx < Len(all_token_ids)
    /\ id_chunks' = Append(id_chunks,
                           SWWindowAt(all_token_ids, start_idx, config.fixed_chunk_size))
    /\ start_idx' = start_idx + SWStride(config.fixed_chunk_size, config.overlap)
    /\ UNCHANGED <<pc, error, file_i, text, doc_id, config, model_provider_map,
                   emb_i, all_token_ids, chunks, sentVars, mapVars, routeVars, otherVars, evalVars>>

\* a loop that is left only when the start index lands on the length
SWDecodeOnExactEnd ==
    /\ pc = "sw_loop"
    /\ start_idx = Len(all_token_ids)
    /\ chunks' = chunks \o DecodeChunks(id_chunks, 0, 0, doc_id, "sw", "sliding_window",
                                        SWModel(SWEntry), SWEntry.provider)
    /\ emb_i' = emb_i + 1
    /\ pc' = "sw_embedding"
    /\ UNCHANGED <<error, file_i, text, doc_id, config, model_provider_map,
                   all_token_ids, id_chunks, start_idx, sentVars, mapVars, routeVars, otherVars, evalVars>>

\* lines 33, 40-59: the loop ends, the windows are decoded and appended
SWDecode ==
    /\ pc = "sw_loop"
    /\ ~(start_idx < Len(all_token_ids))
    /\ chunks' = chunks \o DecodeChunks(id_chunks, 0, 0, doc_id, "sw", "sliding_window",
                                        SWModel(SWEntry), SWEntry.provider)
    /\ emb_i' = emb_i + 1
    /\ pc' = "sw_embedding"
    /\ UNCHANGED <<error, file_i, text, doc_id, config, model_provider_map,
                   all_token_ids, id_chunks, start_idx, sentVars, mapVars, routeVars, otherVars, evalVars>>

\* line 61
SWReturn ==
    /\ pc = "sw_embedding"
    /\ emb_i > Len(config.embedding)
    /\ pc' = "returned"
    /\ UNCHANGED <<error, file_i, chunkVars, sentVars, mapVars, routeVars, otherVars, evalVars>>

NextSliding ==
    \/ SWStrideError \/ SWStrideOk \/ SWSkipModel \/ SWUnknownProvider
    \/ SWWrongProvider \/ SWEncode \/ SWWindow \/ SWDecode \/ SWReturn

----------------------------------------------------------------------------
(* sentence_aware_chunk *)

\* tokenizer.py get_token_counts, for a map whose providers are all known
get_token_counts(t, map) == [m \in DOMAIN map |-> count_tokens(t, map[m])]

SetMax(S) == CHOOSE x \in S : \A y \in S : y <= x
SetMin(S) == CHOOSE x \in S : \A y \in S : x <= y

\* a sentence count taken as the smallest count over the models
SentTokensMin(sent_text, map) ==
    SetMin({get_token_counts(sent_text, map)[m] : m \in DOMAIN map})

\* lines 17-20: max(get_token_counts(sent_text, model_provider_map).values())
SentTokens(sent_text, map) ==
    SetMax({get_token_counts(sent_text, map)[m] : m \in DOMAIN map})

\* lines 10-14: the segmenter's sentences with their character offsets; the
\* sentences of the text are one space apart
RECURSIVE Segment(_, _)
Segment(sents, start_char) ==
    IF sents = <<>> THEN <<>>
    ELSE <<
           <<Head(sents), start_char, start_char + Len(Head(sents))>>
         >> \o Segment(Tail(sents), start_char + Len(Head(sents)) + 1)

\* a close test that also closes a chunk the sentence would fill exactly
MustCloseAtBudget(buf, buf_tokens, sent_tokens, max_tokens) ==
    buf # <<>> /\ buf_tokens + sent_tokens >= max_tokens

\* line 30
MustClose(buf, buf_tokens, sent_tokens, max_tokens) ==
    buf # <<>> /\ buf_tokens + sent_tokens > max_tokens

\* lines 33-46 and 57-70: the chunk record made of the buffered sentences
SAChunk(buf, index, doc, map) ==
    LET chunk_text == Join([i \in 1..Len(buf) |-> buf[i][1]], <<Space>>)
    IN  [chunk_id   |-> <<doc, "chunk", index>>,
         text       |-> chunk_text,
         char_start |-> buf[1][2],
         char_end   |-> buf[Len(buf)][3],
         source     |-> doc,
         strategy   |-> "sentence_aware",
         tokens     |-> get_token_counts(chunk_text, map)]

\* a finalize step that forgets the buffered sentences
SALeftoverDropped(buf, index, doc, map) == <<>>

\* lines 54-70: the leftover buffer becomes the last chunk
SALeftover(buf, index, doc, map) ==
    IF buf # <<>> THEN <<SAChunk(buf, index + 1, doc, map)>> ELSE <<>>

SAMaxTokens == config.chunking.sentence_max_tokens

\* lines 17-20 fail when a sentence is counted with no model (max of an
\* empty sequence) or with a provider get_tokenizer does not know
SACountError ==
    /\ pc = "sa_start"
    /\ text # <<>>
    /\ \/ DOMAIN model_provider_map = {}
       \/ \E m \in DOMAIN model_provider_map : ~KnownProvider(model_provider_map[m])
    /\ sentence_objs' = Segment(text, 0)
    /\ pc' = "raised"
    /\ error' = "ValueError"
    /\ UNCHANGED <<file_i, chunkVars, sent_i, buffer, buffer_tokens, chunk_index,
                   mapVars, routeVars, otherVars, evalVars>>

\* lines 7-25: segment the text, count the sentences, start with an empty buffer
SASegment ==
    /\ pc = "sa_start"
    /\ \/ text = <<>>
       \/ /\ DOMAIN model_provider_map # {}
          /\ \A m \in DOMAIN model_provider_map : KnownProvider(model_provider_map[m])
    /\ sentence_objs' = Segment(text, 0)
    /\ buffer' = <<>>
    /\ buffer_tokens' = 0
    /\ chunk_index' = 0
    /\ sent_i' = 1
    /\ pc' = "sa_loop"
    /\ UNCHANGED <<error, file_i, chunkVars, mapVars, routeVars, otherVars, evalVars>>

\* lines 30-49: the sentence does not fit, the buffer is closed as a chunk
SAClose ==
    /\ pc = "sa_loop"
    /\ sent_i <= Len(sentence_objs)
    /\ LET sent == sentence_objs[sent_i]
           sent_tokens == SentTokens(sent[1], model_provider_map)
       IN  /\ MustClose(buffer, buffer_tokens, sent_tokens, SAMaxTokens)
           /\ chunk_index' = chunk_index + 1
           /\ chunks' = Append(chunks, SAChunk(buffer, chunk_index + 1, doc_id,
                                               model_provider_map))
           /\ buffer' = <<sent>>
           /\ buffer_tokens' = sent_tokens
    /\ sent_i' = sent_i + 1
    /\ UNCHANGED <<pc, error, file_i, text, doc_id, config, model_provider_map, emb_i,
                   all_token_ids, id_chunks, start_idx, sentence_objs, mapVars, routeVars, otherVars, evalVars>>

\* lines 50-52: the sentence joins the buffer
SAAppend ==
    /\ pc = "sa_loop"
    /\ sent_i <= Len(sentence_objs)
    /\ LET sent == sentence_objs[sent_i]
           sent_tokens == SentTokens(sent[1], model_provider_map)
       IN  /\ ~MustClose(buffer, buffer_tokens, sent_tokens, SAMaxTokens)
           /\ buffer' = Append(buffer, sent)
           /\ buffer_tokens' = buffer_tokens + sent_tokens
    /\ sent_i' = sent_i + 1
    /\ UNCHANGED <<pc, error, file_i, chunkVars, sentence_objs, chunk_index,
                   mapVars, routeVars, otherVars, evalVars>>

\* lines 54-72: flush the leftover buffer and return
SAFinalize ==
    /\ pc = "sa_loop"
    /\ sent_i > Len(sentence_objs)
    /\ chunks' = chunks \o SALeftover(buffer, chunk_index, doc_id, model_provider_map)
    /\ chunk_index' = IF buffer # <<>> THEN chunk_index + 1 ELSE chunk_index
    /\ pc' = "returned"
    /\ UNCHANGED <<error, file_i, text, doc_id, config, model_provider_map, emb_i,
                   all_token_ids, id_chunks, start_idx, sentence_objs, sent_i, buffer,
                   buffer_tokens, mapVars, routeVars, otherVars, evalVars>>

NextSentence == SACountError \/ SASegment \/ SAClose \/ SAAppend \/ SAFinalize

----------------------------------------------------------------------------
(* querier.py: normalize and map_answers_to_chunks. A text is a sequence   *)
(* of one-character strings.                                               *)

Punctuation == {".", "!", "?"}
Whitespace == {" "}

\* str.lower() on one character
LowerChar(c) == CASE c = "A" -> "a" [] c = "B" -> "b" [] OTHER -> c

\* str.strip()
RECURSIVE LStrip(_)
LStrip(t) == IF t # <<>> /\ Head(t) \in Whitespace THEN LStrip(Tail(t)) ELSE t
RECURSIVE RStrip(_)
RStrip(t) ==
    IF t # <<>> /\ t[Len(t)] \in Whitespace THEN RStrip(SubSeq(t, 1, Len(t) - 1)) ELSE t

\* line 137: text.lower().translate(<drop string.punctuation>).strip()
normalize(t) ==
    LET lowered == [i \in 1..Len(t) |-> LowerChar(t[i])]
        kept == SelectSeq(lowered, LAMBDA c : c \notin Punctuation)
    IN  RStrip(LStrip(kept))

\* needle in hay, for two str
Contains(hay, needle) ==
    \E off \in 0..(Len(hay) - Len(needle)) :
        \A i \in 1..Len(needle) : hay[off + i] = needle[i]

MapFileInfo == storage[file_i]

\* lines 146-149: an empty listing returns the empty list
MapNoFiles ==
    /\ pc = "map_start"
    /\ storage = <<>>
    /\ pc' = "returned"
    /\ UNCHANGED <<error, file_i, chunkVars, sentVars, mapVars, routeVars, otherVars, evalVars>>

\* lines 146-151: the listing of chunks/{user_id}/ is not empty
MapListed ==
    /\ pc = "map_start"
    /\ storage # <<>>
    /\ pc' = "map_files"
    /\ UNCHANGED <<error, file_i, chunkVars, sentVars, mapVars, routeVars, otherVars, evalVars>>

\* lines 153-154: a name that does not end with .json is skipped
MapSkipNotJson ==
    /\ pc = "map_files"
    /\ file_i <= Len(storage)
    /\ MapFileInfo.name[2] # ".json"
    /\ file_i' = file_i + 1
    /\ UNCHANGED <<pc, error, chunkVars, sentVars, mapVars, routeVars, otherVars, evalVars>>

\* line 157 calls supabase.download_file(file_path, user_id), and
\* SupabaseClient.download_file takes (file_name, user_id, prefix): the call
\* raises TypeError before any file is read; lines 179-181 log it and raise
\* it again. Lines 158-175 are never reached.
MapDownloadRaises ==
    /\ pc = "map_files"
    /\ file_i <= Len(storage)
    /\ MapFileInfo.name[2] = ".json"
    /\ pc' = "raised"
    /\ error' = "TypeError"
    /\ UNCHANGED <<file_i, chunkVars, sentVars, mapVars, routeVars, otherVars, evalVars>>

\* line 177
MapReturn ==
    /\ pc = "map_files"
    /\ file_i > Len(storage)
    /\ pc' = "returned"
    /\ UNCHANGED <<error, file_i, chunkVars, sentVars, mapVars, routeVars, otherVars, evalVars>>

NextMapper ==
    MapNoFiles \/ MapListed \/ MapSkipNotJson \/ MapDownloadRaises \/ MapReturn

----------------------------------------------------------------------------
(* evaluate_retrieval.py: evaluate_retrieval. storage is the listing of     *)
(* qa_pairs/{user_id}/ with what each file holds. Sums of 1.0 / rank are    *)
(* kept exactly, as multiples of 1 / MRRScale; a rate is a fraction.        *)

\* the sequences over S of length 0..n
RECURSIVE SeqsUpTo(_, _)
SeqsUpTo(S, n) ==
    IF n = 0 THEN {<<>>}
    ELSE LET shorter == SeqsUpTo(S, n - 1)
         IN  shorter \cup {Append(s, x) : s \in {t \in shorter : Len(t) = n - 1}, x \in S}

TopK == 5
\* the least common multiple of the ranks 1..TopK
MRRScale == 3 * 4 * 5

Fraction(n, d) == [num |-> n, den |-> d]

\* lines 125-133 and 165-173: a fresh metrics entry; total is the key
\* total_questions in the overall entry
FreshCounts ==
    [total             |-> 0,
     found_in_top_k    |-> 0,
     total_latency_ms  |-> 0,
     total_cost        |-> 0,
     rank_distribution |-> <<>>,
     recall_at_k       |-> Fraction(0, 1),
     mean_reciprocal_rank |-> Fraction(0, MRRScale)]

\* lines 116-135
FreshMetrics == [overall |-> FreshCounts, by_strategy |-> <<>>]

\* lines 229-242: the rates of one entry, left alone when it has no question
Aggregate(m) ==
    IF m.total > 0
    THEN ("avg_latency_ms" :> Fraction(m.total_latency_ms, m.total)) @@
         [m EXCEPT !.recall_at_k = Fraction(m.found_in_top_k, m.total),
                   !.mean_reciprocal_rank.den = @ * m.total]
    ELSE m

\* the hits of the vector search
HitById      == [id |-> "g1", payload |-> <<>>]
HitG1        == [id |-> "p2", payload |-> [chunk_id |-> "g1", latency |-> 7, cost |-> 3]]
HitG2        == [id |-> "p3", payload |-> [chunk_id |-> "g2", latency |-> 5, cost |-> 2]]
HitG2NoCost  == [id |-> "g2", payload |-> [latency |-> 4]]

\* the hits search() would return for a question; "fails" stands for an
\* embed() or search() call that raises
Search(question) ==
    CASE question = "first"   -> <<HitById>>
      [] question = "second"  -> <<HitG2, HitG1, HitG1>>
      [] question = "third"   -> <<HitG1, HitById, HitG2NoCost, HitG2>>
      [] question = "missing" -> <<HitG1, HitG2>>
      [] question = "nothing" -> <<>>
      [] OTHER                -> "fails"

\* the gold labels a QA file can hold
GoldLabels ==
    { [question |-> "first",   gold_chunk_id |-> "g1", strategy |-> "fixed_token"],
      [question |-> "second",  gold_chunk_id |-> "g1", strategy |-> "fixed_token"],
      [question |-> "third",   gold_chunk_id |-> "g2", strategy |-> "sentence_aware"],
      [question |-> "missing", gold_chunk_id |-> "g3", strategy |-> "sentence_aware"],
      [question |-> "nothing", gold_chunk_id |-> "g1", strategy |-> "sliding_window"],
      [question |-> "broken",  gold_chunk_id |-> "g1", strategy |-> "fixed_token"] }

EvalFileInfo == storage[file_i]

\* lines 137-141: an empty listing ends the run without metrics
EvalNoFiles ==
    /\ pc = "ev_start"
    /\ storage = <<>>
    /\ pc' = "returned_none"
    /\ UNCHANGED <<error, file_i, chunkVars, sentVars, mapVars, routeVars, otherVars, evalVars>>

\* lines 137-144: the listing holds files
EvalListed ==
    /\ pc = "ev_start"
    /\ storage # <<>>
    /\ pc' = "ev_files"
    /\ UNCHANGED <<error, file_i, chunkVars, sentVars, mapVars, routeVars, otherVars, evalVars>>

\* lines 146-147: a name that does not end with _qa.json is skipped
EvalSkipFile ==
    /\ pc = "ev_files"
    /\ file_i <= Len(storage)
    /\ EvalFileInfo.name[2] # "_qa.json"
    /\ file_i' = file_i + 1
    /\ UNCHANGED <<pc, error, chunkVars, sentVars, mapVars, routeVars, otherVars, evalVars>>

\* line 153 calls supabase.download_file(file_path, user_id), and
\* SupabaseClient.download_file takes (file_name, user_id, prefix): the call
\* raises TypeError before any QA file is read; lines 278-280 log it and
\* raise it again. Lines 154-226 are never reached.
EvalDownloadRaises ==
    /\ pc = "ev_files"
    /\ file_i <= Len(storage)
    /\ EvalFileInfo.name[2] = "_qa.json"
    /\ pc' = "raised"
    /\ error' = "TypeError"
    /\ UNCHANGED <<file_i, chunkVars, sentVars, mapVars, routeVars, otherVars, evalVars>>

\* lines 228-255: the listing is done, the rates are computed and uploaded
EvalAggregate ==
    /\ pc = "ev_files"
    /\ file_i > Len(storage)
    /\ metrics' = [overall |-> Aggregate(metrics.overall),
                   by_strategy |->
                      IF metrics.overall.total > 0
                      THEN [st \in DOMAIN metrics.by_strategy |->
                               Aggregate(metrics.by_strategy[st])]
                      ELSE metrics.by_strategy]
    /\ pc' = "ev_report"
    /\ UNCHANGED <<error, file_i, chunkVars, sentVars, mapVars, routeVars, otherVars, questions, q_i, hits>>

\* line 264 reads overall["avg_latency_ms"], a key line 233 sets only when
\* total_questions > 0: KeyError, logged and raised again (lines 278-280)
EvalReportError ==
    /\ pc = "ev_report"
    /\ "avg_latency_ms" \notin DOMAIN metrics.overall
    /\ pc' = "raised"
    /\ error' = "KeyError"
    /\ UNCHANGED <<file_i, chunkVars, sentVars, mapVars, routeVars, otherVars, evalVars>>

NextEval ==
    \/ EvalNoFiles \/ EvalListed \/ EvalSkipFile \/ EvalDownloadRaises
    \/ EvalAggregate \/ EvalReportError

----------------------------------------------------------------------------
(* chunk_router.py: chunk; run_chunking.py: chunk_text, process_document.   *)
(* text is the list of the document's sentences, as for sentence_aware.     *)

StrategyNames == {"fixed_token", "sliding_window", "sentence_aware"}

\* run_chunking.py line 47: not doc_data["text"].strip()
IsBlank(sents) == \A k \in 1..Len(sents) : \A n \in 1..Len(sents[k]) : sents[k][n] = Space

\* a validation that lets every text pass, blank or not
validate_document_any_text(doc, sents) ==
    IF "text" \notin doc.fields \/ "source" \notin doc.fields THEN "ValueError"
    ELSE IF ~doc.text_is_str THEN "ValueError"
    ELSE "none"

\* run_chunking.py lines 38-48: the error validate_document raises for the
\* document doc whose text, when it is a string, has the sentences sents, or
\* "none"
validate_document(doc, sents) ==
    IF "text" \notin doc.fields \/ "source" \notin doc.fields THEN "ValueError"
    ELSE IF ~doc.text_is_str THEN "ValueError"
    ELSE IF IsBlank(sents) THEN "ValueError"
    ELSE "none"

\* run_chunking.py lines 21-36, for a config that has the three int fields:
\* the error validate_config raises, or "none"
validate_config(cfg) ==
    IF cfg.overlap >= cfg.fixed_chunk_size THEN "ValueError" ELSE "none"

\* chunk_router.py lines 7-10 and 16-20: fixed_token and sliding_window go to
\* the module's own fixed_token_chunk and sliding_window_chunk, which return []
RouterStub ==
    /\ pc = "router_chunk"
    /\ config.chunking.strategy \in {"fixed_token", "sliding_window"}
    /\ chunks' = <<>>
    /\ pc' = "returned"
    /\ UNCHANGED <<error, file_i, text, doc_id, config, model_provider_map, emb_i,
                   all_token_ids, id_chunks, start_idx, sentVars, mapVars, routeVars, otherVars,
                   evalVars>>

\* chunk_router.py lines 11-12: sentence_aware_chunk is called
RouterSentence ==
    /\ pc = "router_chunk"
    /\ config.chunking.strategy = "sentence_aware"
    /\ pc' = "sa_start"
    /\ UNCHANGED <<error, file_i, chunkVars, sentVars, mapVars, routeVars, otherVars, evalVars>>

\* chunk_router.py lines 13-14
RouterInvalid ==
    /\ pc = "router_chunk"
    /\ config.chunking.strategy \notin StrategyNames
    /\ pc' = "raised"
    /\ error' = "ValueError"
    /\ UNCHANGED <<file_i, chunkVars, sentVars, mapVars, routeVars, otherVars, evalVars>>

\* run_chunking.py lines 53-61 and 67-69: the chunker, a function of four
\* parameters, is called with seven arguments; the TypeError is logged and
\* raised again
ChunkTextTypeError ==
    /\ pc = "chunk_text"
    /\ route_strategy \in StrategyNames
    /\ pc' = "raised"
    /\ error' = "TypeError"
    /\ UNCHANGED <<file_i, chunkVars, sentVars, mapVars, routeVars, otherVars, evalVars>>

\* run_chunking.py lines 62-63 and 67-69
ChunkTextInvalid ==
    /\ pc = "chunk_text"
    /\ route_strategy \notin StrategyNames
    /\ pc' = "raised"
    /\ error' = "ValueError"
    /\ UNCHANGED <<file_i, chunkVars, sentVars, mapVars, routeVars, otherVars, evalVars>>

\* run_chunking.py lines 75-76 and 124-127: validate_document or
\* validate_config raises
ProcessDocumentInvalid ==
    /\ pc = "process_document"
    /\ validate_document(doc_data, text) # "none" \/ validate_config(config) # "none"
    /\ pc' = "raised"
    /\ error' = "ValueError"
    /\ UNCHANGED <<file_i, chunkVars, sentVars, mapVars, routeVars, otherVars, evalVars>>

\* run_chunking.py lines 82-84 and 124-127: the inputs are valid and
\* doc_data['source'] is empty or None; chunk_text is not called
ProcessDocumentNoSource ==
    /\ pc = "process_document"
    /\ validate_document(doc_data, text) = "none"
    /\ validate_config(config) = "none"
    /\ doc_data.source_is_empty
    /\ pc' = "raised"
    /\ error' = "ValueError"
    /\ UNCHANGED <<file_i, chunkVars, sentVars, mapVars, routeVars, otherVars, evalVars>>

\* run_chunking.py lines 75-91: the inputs are valid and the document names
\* its source, chunk_text is called
ProcessDocumentChunk ==
    /\ pc = "process_document"
    /\ validate_document(doc_data, text) = "none"
    /\ validate_config(config) = "none"
    /\ ~doc_data.source_is_empty
    /\ pc' = "chunk_text"
    /\ UNCHANGED <<error, file_i, chunkVars, sentVars, mapVars, routeVars, otherVars, evalVars>>

NextRouter ==
    \/ RouterStub \/ RouterSentence \/ RouterInvalid
    \/ ChunkTextTypeError \/ ChunkTextInvalid
    \/ ProcessDocumentInvalid \/ ProcessDocumentNoSource \/ ProcessDocumentChunk
    \/ NextSentence

----------------------------------------------------------------------------
(* run_chunking.py: main. storage is the listing of processed/; each file   *)
(* has a name, whether the storage can deliver it, whether it parses as     *)
(* JSON, and the document it holds.                                         *)

MainFile == storage[file_i]

LogEntry(i, outcome) == [file |-> i, outcome |-> outcome]

\* lines 138-142 and 184-187: the configuration is read and validated; an
\* error is logged and the process exits with status 1
MainConfigError ==
    /\ pc = "main_start"
    /\ validate_config(config) # "none"
    /\ pc' = "exited"
    /\ error' = "ValueError"
    /\ UNCHANGED <<file_i, chunkVars, sentVars, mapVars, routeVars, otherVars, evalVars>>

\* lines 148-151: nothing is listed
MainNoFiles ==
    /\ pc = "main_start"
    /\ validate_config(config) = "none"
    /\ storage = <<>>
    /\ pc' = "returned"
    /\ UNCHANGED <<error, file_i, chunkVars, sentVars, mapVars, routeVars, otherVars, evalVars>>

\* lines 148-154: the loop over the listing starts
MainListed ==
    /\ pc = "main_start"
    /\ validate_config(config) = "none"
    /\ storage # <<>>
    /\ pc' = "main_files"
    /\ UNCHANGED <<error, file_i, chunkVars, sentVars, mapVars, routeVars, otherVars, evalVars>>

\* lines 156-159: a file that is not JSON is skipped
MainSkipNotJson ==
    /\ pc = "main_files"
    /\ file_i <= Len(storage)
    /\ MainFile.name[2] # ".json"
    /\ log' = Append(log, LogEntry(file_i, "skipped"))
    /\ file_i' = file_i + 1
    /\ UNCHANGED <<pc, error, chunkVars, sentVars, mapVars, routeVars, doc_data, previous,
                   vecVars, raggedVars, evalVars>>

\* line 164 calls supabase.download_file(file_path, args.user_id), and
\* SupabaseClient.download_file takes (file_name, user_id, prefix): the call
\* raises TypeError inside the try of line 155, before any file is read.
\* Lines 165-177 are never reached.
MainDownloadRaises ==
    /\ pc = "main_files"
    /\ file_i <= Len(storage)
    /\ MainFile.name[2] = ".json"
    /\ pc' = "raised"
    /\ error' = "TypeError"
    /\ UNCHANGED <<file_i, chunkVars, sentVars, mapVars, routeVars, otherVars, evalVars>>

\* a handler that ends the run at the first failing document
MainCatchAborts ==
    /\ pc = "raised"
    /\ log' = Append(log, LogEntry(file_i, error))
    /\ pc' = "exited"
    /\ UNCHANGED <<error, file_i, chunkVars, sentVars, mapVars, routeVars, doc_data,
                   previous, vecVars, raggedVars, evalVars>>

\* lines 179-182: the exception is logged and the loop goes on with the
\* next file
MainCatch ==
    /\ pc = "raised"
    /\ log' = Append(log, LogEntry(file_i, error))
    /\ error' = "none"
    /\ file_i' = file_i + 1
    /\ pc' = "main_files"
    /\ UNCHANGED <<chunkVars, sentVars, mapVars, routeVars, doc_data, previous,
                   vecVars, raggedVars, evalVars>>

\* line 154: the listing is done
MainDone ==
    /\ pc = "main_files"
    /\ file_i > Len(storage)
    /\ pc' = "returned"
    /\ UNCHANGED <<error, file_i, chunkVars, sentVars, mapVars, routeVars, otherVars, evalVars>>

NextMain ==
    \/ MainConfigError \/ MainNoFiles \/ MainListed \/ MainSkipNotJson
    \/ MainDownloadRaises \/ MainCatch \/ MainDone

----------------------------------------------------------------------------
(* Repeated calls of the chunkers in one process. previous holds, for each  *)
(* call that ended, its arguments and what it returned or raised. A call    *)
(* starts a new frame: the locals of the call before are left as they were, *)
(* and every one of them is assigned before the code reads it.              *)

RepeatFixedTexts == {<<3, 6, 9>>, <<2, 3, 1>>}

RepeatFixedConfigs ==
    { [fixed_chunk_size |-> 2, overlap |-> 0, embedding |-> <<[provider |-> "huggingface"]>>],
      [fixed_chunk_size |-> 2, overlap |-> 0,
       embedding |-> <<[provider |-> "cohere"], [provider |-> "huggingface"]>>],
      [fixed_chunk_size |-> 3, overlap |-> 0, embedding |-> <<[provider |-> "openai"]>>],
      [fixed_chunk_size |-> 0, overlap |-> 0, embedding |-> <<[provider |-> "openai"]>>] }

RepeatSentTexts == {<<<<1>>, <<2>>>>, <<<<1, 2>>, <<3>>, <<1>>>>}

RepeatSentConfigs == {[chunking |-> [sentence_max_tokens |-> b]] : b \in {1, 3}}

RepeatSentMaps == {(HFModel :> "huggingface"), (HFModel :> "cohere")}

\* a fixed_token_chunk whose list of chunks outlives the call
RepeatCallFixedKeeps ==
    /\ pc = "call"
    /\ Len(previous) < MaxCalls
    /\ text' \in RepeatFixedTexts
    /\ config' \in RepeatFixedConfigs
    /\ model_provider_map' = <<>>
    /\ emb_i' = 1
    /\ pc' = "ft_embedding"
    /\ route_strategy' = "fixed_token"
    /\ UNCHANGED <<error, file_i, doc_id, all_token_ids, id_chunks, start_idx, chunks,
                   sentVars, mapVars, otherVars, evalVars>>

\* fixed_token.py lines 5-8: a call of fixed_token_chunk, chunks = []
RepeatCallFixed ==
    /\ pc = "call"
    /\ Len(previous) < MaxCalls
    /\ text' \in RepeatFixedTexts
    /\ config' \in RepeatFixedConfigs
    /\ model_provider_map' = <<>>
    /\ chunks' = <<>>
    /\ emb_i' = 1
    /\ pc' = "ft_embedding"
    /\ route_strategy' = "fixed_token"
    /\ UNCHANGED <<error, file_i, doc_id, all_token_ids, id_chunks, start_idx,
                   sentVars, mapVars, otherVars, evalVars>>

\* sentence_aware.py lines 6-7 and 22: a call of sentence_aware_chunk
RepeatCallSentence ==
    /\ pc = "call"
    /\ Len(previous) < MaxCalls
    /\ text' \in RepeatSentTexts
    /\ config' \in RepeatSentConfigs
    /\ model_provider_map' \in RepeatSentMaps
    /\ chunks' = <<>>
    /\ pc' = "sa_start"
    /\ route_strategy' = "sentence_aware"
    /\ UNCHANGED <<error, file_i, doc_id, emb_i, all_token_ids, id_chunks, start_idx,
                   sentVars, mapVars, otherVars, evalVars>>

\* fixed_token.py line 56, sentence_aware.py line 72, or the exception that
\* leaves the call: the caller has the result
RepeatResult ==
    /\ pc \in {"returned", "raised"}
    /\ previous' = Append(previous,
                          [chunker |-> route_strategy, text |-> text, doc_id |-> doc_id,
                           config |-> config, model_provider_map |-> model_provider_map,
                           raised |-> error,
                           result |-> IF pc = "returned" THEN chunks ELSE <<>>])
    /\ error' = "none"
    /\ pc' = "call"
    /\ UNCHANGED <<file_i, chunkVars, sentVars, mapVars, routeVars, mainVars,
                   vecVars, raggedVars, evalVars>>

NextRepeat ==
    \/ RepeatCallFixed \/ RepeatCallSentence \/ RepeatResult
    \/ NextFixed \/ NextSentence

----------------------------------------------------------------------------
(* run_ragged.py: the strategy loop of main. strats is cfg["strats"], file_i *)
(* the position of the loop in it. dirs tells which passes of the loop left  *)
(* something in the local chunks directory, in golden_qs and in the vector   *)
(* collection. Line 290 starts run_chunking.py with --strategy alone, and    *)
(* its parser requires --strategy, --model, --provider, --user-id and        *)
(* --config (run_chunking.py lines 131-135): the subprocess ends with        *)
(* status 2 before it reads or writes anything, so every pass takes the      *)
(* continue of line 305 and the mapping, embedding and evaluation steps of   *)
(* lines 313-378 are not reached.                                            *)

\* a chunking subprocess that leaves the chunk files it wrote in the chunks
\* directory when it fails
RaggedChunkingFailsLeavesChunks ==
    /\ pc = "rg_chunking"
    /\ file_i <= Len(strats)
    /\ dirs' = [dirs EXCEPT !.chunks = @ \cup {file_i}]
    /\ file_i' = file_i + 1
    /\ UNCHANGED <<pc, error, chunkVars, sentVars, mapVars, routeVars, mainVars, previous,
                   vecVars, strats, evalVars>>

\* lines 286-311: the chunking subprocess exits with a status other than 0,
\* or cannot be run; the loop continues with the next strategy
RaggedChunkingFails ==
    /\ pc = "rg_chunking"
    /\ file_i <= Len(strats)
    /\ file_i' = file_i + 1
    /\ UNCHANGED <<pc, error, chunkVars, sentVars, mapVars, routeVars, otherVars, evalVars>>

\* line 280: the strategies are done
RaggedDone ==
    /\ pc = "rg_chunking"
    /\ file_i > Len(strats)
    /\ pc' = "returned"
    /\ UNCHANGED <<error, file_i, chunkVars, sentVars, mapVars, routeVars, otherVars, evalVars>>

NextRagged == RaggedChunkingFails \/ RaggedDone

----------------------------------------------------------------------------
(* vectorStore.py. collections maps the name of each collection of the     *)
(* server to the ids of its points. The functions of the module send their *)
(* requests one at a time and wait for each answer; two processes use the  *)
(* same server, and calls[p] tells the call process p is in and the        *)
(* request it sends next. upserted keeps, for each name, the ids for which *)
(* upsert_vector returned since delete_collection last returned for the    *)
(* name. What the server answers to the delete of a collection it does    *)
(* not hold is not fixed by the module: it answers without error, or it    *)
(* refuses the request.                                                     *)

CollectionNames == {"autoembed_chunks_u1", "autoembed_chunks_u2"}

PointIds == 1..MaxPoints

Processes == {"p1", "p2"}

\* the process is in no call
NoCall == [op |-> "none", at |-> "idle", name |-> "", id |-> 0]

\* the server's create_collection: a new collection has no point
ServerCreate(cols, name) ==
    [n \in DOMAIN cols \cup {name} |-> IF n = name THEN {} ELSE cols[n]]

\* the server's delete_collection
ServerDelete(cols, name) ==
    [n \in DOMAIN cols \ {name} |-> cols[n]]

\* line 68 and lines 36-39: create_collection is called, by upsert_vector
\* or from outside, and the answer of get_collections tells which branch
\* it takes
VectorGetCollections ==
    /\ pc = "vector"
    /\ \E p \in Processes, name \in CollectionNames, id \in 0..MaxPoints :
          /\ calls[p] = NoCall
          /\ calls' = [calls EXCEPT ![p] =
                 [op   |-> IF id = 0 THEN "create_collection" ELSE "upsert_vector",
                  at   |-> IF name \in DOMAIN collections THEN "delete" ELSE "create",
                  name |-> name,
                  id   |-> id]]
    /\ UNCHANGED <<pc, error, file_i, chunkVars, sentVars, mapVars, routeVars, mainVars,
                   previous, collections, upserted, raggedVars, evalVars>>

\* line 50: the collection is deleted, with its points; when the other
\* process deleted it in the meantime the server answers without error
VectorDeleteExisting ==
    /\ pc = "vector"
    /\ \E p \in Processes :
          /\ calls[p].at = "delete"
          /\ collections' = ServerDelete(collections, calls[p].name)
          /\ calls' = [calls EXCEPT ![p].at = "create"]
    /\ UNCHANGED <<pc, error, file_i, chunkVars, sentVars, mapVars, routeVars, mainVars,
                   previous, upserted, raggedVars, evalVars>>

\* lines 50 and 60-62: the other process deleted the collection in the
\* meantime and the server refuses the delete; the error is logged and
\* raised again
VectorDeleteExistingMissing ==
    /\ pc = "vector"
    /\ \E p \in Processes :
          /\ calls[p].at = "delete"
          /\ calls[p].name \notin DOMAIN collections
          /\ calls' = [calls EXCEPT ![p] = NoCall]
    /\ error' = "UnexpectedResponse"
    /\ UNCHANGED <<pc, file_i, chunkVars, sentVars, mapVars, routeVars, mainVars,
                   previous, collections, upserted, raggedVars, evalVars>>

\* lines 40-47 and 51-58: the collection is created; create_collection
\* returns, and a call from outside ends
VectorCreateCollection ==
    /\ pc = "vector"
    /\ \E p \in Processes :
          /\ calls[p].at = "create"
          /\ calls[p].name \notin DOMAIN collections
          /\ collections' = ServerCreate(collections, calls[p].name)
          /\ IF calls[p].op = "upsert_vector"
             THEN calls' = [calls EXCEPT ![p].at = "upsert"] /\ UNCHANGED error
             ELSE calls' = [calls EXCEPT ![p] = NoCall] /\ error' = "none"
    /\ UNCHANGED <<pc, file_i, chunkVars, sentVars, mapVars, routeVars, mainVars,
                   previous, upserted, raggedVars, evalVars>>

\* lines 40-46, 51-57 and 60-62: the other process created the collection
\* in the meantime; the server refuses, the error is logged and raised again
VectorCreateConflict ==
    /\ pc = "vector"
    /\ \E p \in Processes :
          /\ calls[p].at = "create"
          /\ calls[p].name \in DOMAIN collections
          /\ calls' = [calls EXCEPT ![p] = NoCall]
    /\ error' = "UnexpectedResponse"
    /\ UNCHANGED <<pc, file_i, chunkVars, sentVars, mapVars, routeVars, mainVars,
                   previous, collections, upserted, raggedVars, evalVars>>

\* lines 71-81: the point is upserted and upsert_vector returns
VectorUpsert ==
    /\ pc = "vector"
    /\ \E p \in Processes :
          /\ calls[p].at = "upsert"
          /\ calls[p].name \in DOMAIN collections
          /\ collections' = [collections EXCEPT ![calls[p].name] = @ \cup {calls[p].id}]
          /\ upserted' = [upserted EXCEPT ![calls[p].name] = @ \cup {calls[p].id}]
          /\ calls' = [calls EXCEPT ![p] = NoCall]
    /\ error' = "none"
    /\ UNCHANGED <<pc, file_i, chunkVars, sentVars, mapVars, routeVars, mainVars,
                   previous, raggedVars, evalVars>>

\* lines 71-85: the other process deleted the collection in the meantime;
\* the server refuses the upsert, the error is logged and raised again
VectorUpsertMissing ==
    /\ pc = "vector"
    /\ \E p \in Processes :
          /\ calls[p].at = "upsert"
          /\ calls[p].name \notin DOMAIN collections
          /\ calls' = [calls EXCEPT ![p] = NoCall]
    /\ error' = "UnexpectedResponse"
    /\ UNCHANGED <<pc, file_i, chunkVars, sentVars, mapVars, routeVars, mainVars,
                   previous, collections, upserted, raggedVars, evalVars>>

\* lines 60-62, 83-85, 98-100 and 108-110: the request a process sends
\* next, the first of a new call included, gets no answer from the server;
\* the error is logged and raised again, and what the earlier requests of
\* the call did stays done
VectorRequestFails ==
    /\ pc = "vector"
    /\ \E p \in Processes : calls' = [calls EXCEPT ![p] = NoCall]
    /\ error' = "ResponseHandlingException"
    /\ UNCHANGED <<pc, file_i, chunkVars, sentVars, mapVars, routeVars, mainVars,
                   previous, collections, upserted, raggedVars, evalVars>>

\* lines 87-96: search_vectors returns the points of the collection nearest
\* to the query, at most TopK of them; hits is the list of their ids
VectorSearch ==
    /\ pc = "vector"
    /\ \E p \in Processes : calls[p] = NoCall
    /\ \E name \in DOMAIN collections :
          \E found \in SeqsUpTo(collections[name], TopK) :
              /\ Len(found) = Cardinality(collections[name])
              /\ {found[k] : k \in 1..Len(found)} = collections[name]
              /\ hits' = found
    /\ error' = "none"
    /\ UNCHANGED <<pc, file_i, chunkVars, sentVars, mapVars, routeVars, otherVars,
                   questions, q_i, metrics>>

\* lines 87-100: the search of a collection that does not exist is logged
\* and raised again
VectorSearchMissing ==
    /\ pc = "vector"
    /\ \E p \in Processes : calls[p] = NoCall
    /\ CollectionNames \ DOMAIN collections # {}
    /\ error' = "UnexpectedResponse"
    /\ UNCHANGED <<pc, file_i, chunkVars, sentVars, mapVars, routeVars, otherVars, evalVars>>

\* lines 102-106: delete_collection returns, for a collection of the
\* server or for a name the server answers without error
VectorDeleteCollection ==
    /\ pc = "vector"
    /\ \E p \in Processes : calls[p] = NoCall
    /\ \E name \in CollectionNames :
          /\ collections' = ServerDelete(collections, name)
          /\ upserted' = [upserted EXCEPT ![name] = {}]
    /\ error' = "none"
    /\ UNCHANGED <<pc, file_i, chunkVars, sentVars, mapVars, routeVars, mainVars, previous,
                   calls, raggedVars, evalVars>>

\* lines 102-110: the server refuses the delete of a collection it does
\* not hold; the error is logged and raised again
VectorDeleteCollectionMissing ==
    /\ pc = "vector"
    /\ \E p \in Processes : calls[p] = NoCall
    /\ CollectionNames \ DOMAIN collections # {}
    /\ error' = "UnexpectedResponse"
    /\ UNCHANGED <<pc, file_i, chunkVars, sentVars, mapVars, routeVars, otherVars, evalVars>>

NextVector ==
    \/ VectorGetCollections \/ VectorDeleteExisting \/ VectorDeleteExistingMissing
    \/ VectorCreateCollection \/ VectorCreateConflict
    \/ VectorUpsert \/ VectorUpsertMissing \/ VectorRequestFails
    \/ VectorSearch \/ VectorSearchMissing
    \/ VectorDeleteCollection \/ VectorDeleteCollectionMissing

----------------------------------------------------------------------------
(* Inputs *)

\* document texts: one family of distinct characters no provider splits, one
\* that mixes characters each provider splits
Texts == {[i \in 1..n |-> 3 * i] : n \in 0..MaxLen}
             \cup {[i \in 1..n |-> 1 + (i % 3)] : n \in 0..MaxLen}

EmbeddingLists == SeqsUpTo({[provider |-> p] : p \in Providers}, MaxEmb)

DocIds == {<<"report", ".pdf">>}

Configs ==
    {[fixed_chunk_size |-> m, overlap |-> o, embedding |-> e] :
        m \in -1..MaxTokens, o \in -1..MaxTokens, e \in EmbeddingLists}

\* the variables a chunker call does not use
IdleSentence ==
    /\ sentence_objs = <<>> /\ sent_i = 1 /\ buffer = <<>>
    /\ buffer_tokens = 0 /\ chunk_index = 0
IdleMapper == storage = <<>> /\ qa_pairs = <<>> /\ mapped = <<>>
IdleEval == questions = <<>> /\ q_i = 1 /\ hits = <<>> /\ metrics = <<>>
IdleRouter == route_strategy = "none"
IdleOther ==
    /\ doc_data = <<>> /\ log = <<>> /\ previous = <<>>
    /\ collections = <<>> /\ upserted = <<>> /\ calls = <<>> /\ strats = <<>> /\ dirs = <<>>
IdleChunk ==
    /\ text = <<>> /\ doc_id = <<"report", ".pdf">> /\ config = <<>>
    /\ model_provider_map = <<>> /\ emb_i = 1 /\ all_token_ids = <<>>
    /\ id_chunks = <<>> /\ start_idx = 0 /\ chunks = <<>>

InitFixed ==
    /\ pc = "ft_embedding"
    /\ error = "none"
    /\ file_i = 1
    /\ text \in Texts
    /\ doc_id \in DocIds
    /\ config \in {c \in Configs : c.overlap = 0}
    /\ Len(config.embedding) <= 1 \/ Len(text) <= SmallLen
    /\ model_provider_map = <<>>
    /\ emb_i = 1
    /\ all_token_ids = <<>>
    /\ id_chunks = <<>>
    /\ start_idx = 0
    /\ chunks = <<>>
    /\ IdleSentence /\ IdleMapper /\ IdleEval /\ IdleRouter /\ IdleOther

SpecFixed == InitFixed /\ [][NextFixed]_vars

ModelProviderMaps ==
    { <<>>,
      (HFModel :> "huggingface"),
      (HFModel :> "huggingface") @@ (OAModel :> "openai") }

InitSliding ==
    /\ pc = "sw_start"
    /\ error = "none"
    /\ file_i = 1
    /\ text \in Texts
    /\ doc_id \in DocIds
    /\ config \in Configs
    /\ Len(config.embedding) <= 1 \/ Len(text) <= SmallLen
    /\ model_provider_map \in ModelProviderMaps
    /\ emb_i = 1
    /\ all_token_ids = <<>>
    /\ id_chunks = <<>>
    /\ start_idx = 0
    /\ chunks = <<>>
    /\ IdleSentence /\ IdleMapper /\ IdleEval /\ IdleRouter /\ IdleOther

SpecSliding == InitSliding /\ [][NextSliding]_vars

\* the call runs on: a step that can be taken is taken
SpecSlidingFair == SpecSliding /\ WF_vars(NextSliding)

\* sentence texts: characters one provider or the other splits, a character
\* none splits, a longer sentence, and a sentence of white space (no token)
SentTexts == {<<1>>, <<2>>, <<3>>, <<1, 2>>, <<Space>>}

SentConfigs == {[chunking |-> [sentence_max_tokens |-> b]] : b \in 0..MaxBudget}

SentModelProviderMaps ==
    ModelProviderMaps \cup {(OAModel :> "openai"), (HFModel :> "cohere")}

InitSentence ==
    /\ pc = "sa_start"
    /\ error = "none"
    /\ file_i = 1
    /\ text \in SeqsUpTo(SentTexts, MaxSents)
    /\ doc_id \in DocIds
    /\ config \in SentConfigs
    /\ model_provider_map \in SentModelProviderMaps
    /\ emb_i = 1
    /\ all_token_ids = <<>>
    /\ id_chunks = <<>>
    /\ start_idx = 0
    /\ chunks = <<>>
    /\ IdleSentence /\ IdleMapper /\ IdleEval /\ IdleRouter /\ IdleOther

SpecSentence == InitSentence /\ [][NextSentence]_vars

\* the documents whose chunk files lie in the user's chunks directory
Docs == {<<"report", ".pdf">>, <<"notes", ".md">>}

\* chunk texts, with their normalized form
TextAdotB  == <<"A", ".", "b">>        \* "ab"
TextBspA   == <<"b", " ", "a">>        \* "b a"
TextDot    == <<".">>                  \* ""
TextAspB   == <<"a", " ", "b", "!">>   \* "a b"

\* the chunk lists a chunk file can hold, with the strategy that made them
ChunkFileContents ==
    { [strategy |-> "fixed_token",    code |-> "ft",    texts |-> <<TextAdotB, TextBspA>>],
      [strategy |-> "sliding_window", code |-> "sw",    texts |-> <<TextDot, TextBspA, TextAdotB>>],
      [strategy |-> "sentence_aware", code |-> "chunk", texts |-> <<>>],
      [strategy |-> "fixed_token",    code |-> "ft",    texts |-> <<TextAspB>>] }

ChunksOf(doc, content) ==
    [k \in 1..Len(content.texts) |->
        [chunk_id |-> <<SplitExtStem(doc), content.code, k>>,
         text     |-> content.texts[k],
         strategy |-> content.strategy,
         source   |-> doc]]

\* the files of the listing: chunk files of either document, a file that is
\* not JSON, and a file the storage cannot deliver
StorageFiles ==
    { [name |-> <<SplitExtStem(d), ".json">>, downloads |-> TRUE, chunks |-> ChunksOf(d, c)] :
          d \in Docs, c \in ChunkFileContents }
    \cup { [name |-> <<"readme", ".txt">>, downloads |-> TRUE, chunks |-> <<>>],
           [name |-> <<"report", ".json">>, downloads |-> FALSE, chunks |-> <<>>] }

\* answers, with their normalized form
Answers ==
    { <<"a", "B">>,          \* "ab"
      <<" ", "B", "!">>,     \* "b"
      <<"?", " ">>,          \* ""
      <<"b", "b">> }         \* "bb"

QALists ==
    { [i \in 1..Len(as) |-> [question |-> i, answer |-> as[i]]] :
          as \in SeqsUpTo(Answers, MaxQA) }

InitMapper ==
    /\ pc = "map_start"
    /\ error = "none"
    /\ file_i = 1
    /\ doc_id = <<"report", ".pdf">>
    /\ storage \in SeqsUpTo(StorageFiles, MaxFiles)
    /\ qa_pairs \in QALists
    /\ mapped = <<>>
    /\ text = <<>> /\ config = <<>> /\ model_provider_map = <<>> /\ emb_i = 1
    /\ all_token_ids = <<>> /\ id_chunks = <<>> /\ start_idx = 0 /\ chunks = <<>>
    /\ IdleSentence /\ IdleEval /\ IdleRouter /\ IdleOther

SpecMapper == InitMapper /\ [][NextMapper]_vars

\* the files of the listing of qa_pairs/: QA files with the gold labels
\* they hold, a QA file the storage cannot deliver, a file that is no QA file
QAFiles ==
    { [name |-> <<"doc", "_qa.json">>, downloads |-> TRUE, questions |-> qs] :
          qs \in SeqsUpTo(GoldLabels, MaxQuestions) }
    \cup { [name |-> <<"x", "_qa.json">>, downloads |-> FALSE, questions |-> <<>>],
           [name |-> <<"notes", ".json">>, downloads |-> TRUE, questions |-> <<>>] }

InitEval ==
    /\ pc = "ev_start"
    /\ error = "none"
    /\ file_i = 1
    /\ storage \in SeqsUpTo(QAFiles, MaxFiles)
    /\ qa_pairs = <<>>
    /\ mapped = <<>>
    /\ questions = <<>>
    /\ q_i = 1
    /\ hits = <<>>
    /\ metrics = FreshMetrics
    /\ IdleChunk /\ IdleSentence /\ IdleRouter /\ IdleOther

SpecEval == InitEval /\ [][NextEval]_vars

\* the configurations of a routed call: the chunkers' fields and the strategy
\* name chunk_router.chunk reads
RouterConfigs ==
    {[fixed_chunk_size |-> 2, overlap |-> o,
      embedding |-> <<[provider |-> "huggingface"]>>,
      chunking |-> [strategy |-> st, sentence_max_tokens |-> b]] :
        o \in {0, 2}, st \in StrategyNames \cup {"semantic"}, b \in 1..MaxBudget}

\* a document with its two fields, a string as text and a source path
ValidDoc == [fields |-> {"text", "source"}, text_is_str |-> TRUE, source_is_empty |-> FALSE]

\* the documents process_document can be handed: a valid one, one without
\* 'text', one without 'source', one whose text is not a string, one whose
\* source is '' or None
DocDatas ==
    { ValidDoc,
      [fields |-> {"source"}, text_is_str |-> TRUE, source_is_empty |-> FALSE],
      [fields |-> {"text"}, text_is_str |-> TRUE, source_is_empty |-> TRUE],
      [fields |-> {"text", "source"}, text_is_str |-> FALSE, source_is_empty |-> FALSE],
      [fields |-> {"text", "source"}, text_is_str |-> TRUE, source_is_empty |-> TRUE] }

InitRouter ==
    /\ pc \in {"router_chunk", "chunk_text", "process_document"}
    /\ doc_data \in DocDatas
    /\ pc = "process_document" \/ doc_data = ValidDoc
    /\ error = "none"
    /\ file_i = 1
    /\ text \in SeqsUpTo(SentTexts, MaxSents)
    /\ doc_id \in DocIds
    /\ config \in RouterConfigs
    /\ route_strategy = config.chunking.strategy
    /\ pc = "router_chunk" \/ config.chunking.sentence_max_tokens = 1
    /\ model_provider_map \in SentModelProviderMaps
    /\ emb_i = 1
    /\ all_token_ids = <<>>
    /\ id_chunks = <<>>
    /\ start_idx = 0
    /\ chunks = <<>>
    /\ log = <<>> /\ previous = <<>> /\ collections = <<>> /\ upserted = <<>> /\ calls = <<>> /\ strats = <<>> /\ dirs = <<>>
    /\ IdleSentence /\ IdleMapper /\ IdleEval

SpecRouter == InitRouter /\ [][NextRouter]_vars

\* the files of processed/: one that is not JSON, one the storage cannot deliver,
\* one that does not parse, and documents that are invalid, blank or valid
ProcessedFiles ==
    { [name |-> <<"notes", ".txt">>, downloads |-> TRUE, parses |-> TRUE,
       doc |-> ValidDoc, text |-> <<<<1>>>>],
      [name |-> <<"lost", ".json">>, downloads |-> FALSE, parses |-> TRUE,
       doc |-> ValidDoc, text |-> <<<<1>>>>],
      [name |-> <<"broken", ".json">>, downloads |-> TRUE, parses |-> FALSE,
       doc |-> ValidDoc, text |-> <<<<1>>>>],
      [name |-> <<"nosource", ".json">>, downloads |-> TRUE, parses |-> TRUE,
       doc |-> [fields |-> {"text"}, text_is_str |-> TRUE, source_is_empty |-> TRUE],
       text |-> <<<<1>>>>],
      [name |-> <<"blank", ".json">>, downloads |-> TRUE, parses |-> TRUE,
       doc |-> ValidDoc, text |-> <<<<Space>>>>],
      [name |-> <<"report", ".json">>, downloads |-> TRUE, parses |-> TRUE,
       doc |-> ValidDoc, text |-> <<<<1>>, <<2>>>>] }

InitMain ==
    /\ pc = "main_start"
    /\ error = "none"
    /\ file_i = 1
    /\ storage \in SeqsUpTo(ProcessedFiles, MaxFiles)
    /\ config \in {c \in RouterConfigs : c.chunking.sentence_max_tokens = 1}
    /\ route_strategy = config.chunking.strategy
    /\ doc_data = ValidDoc
    /\ log = <<>>
    /\ text = <<>> /\ doc_id = <<"report", ".pdf">> /\ model_provider_map = <<>>
    /\ emb_i = 1 /\ all_token_ids = <<>> /\ id_chunks = <<>> /\ start_idx = 0
    /\ chunks = <<>>
    /\ qa_pairs = <<>> /\ mapped = <<>>
    /\ previous = <<>> /\ collections = <<>> /\ upserted = <<>> /\ calls = <<>> /\ strats = <<>> /\ dirs = <<>>
    /\ IdleSentence /\ IdleEval

SpecMain == InitMain /\ [][NextMain]_vars

InitRepeat ==
    /\ pc = "call"
    /\ error = "none"
    /\ file_i = 1
    /\ IdleChunk
    /\ IdleSentence /\ IdleMapper /\ IdleEval /\ IdleRouter /\ IdleOther

SpecRepeat == InitRepeat /\ [][NextRepeat]_vars

\* lines 221-224 and 279-280: the directories and the collection were
\* cleared (Step 0) and the loop over cfg["strats"] starts
InitRagged ==
    /\ pc = "rg_chunking"
    /\ error = "none"
    /\ file_i = 1
    /\ strats \in SeqsUpTo(StrategyNames, MaxStrats)
    /\ dirs = [chunks |-> {}, golden_qs |-> {}, collection |-> {}]
    /\ IdleChunk /\ IdleSentence /\ IdleMapper /\ IdleEval /\ IdleRouter
    /\ doc_data = <<>> /\ log = <<>> /\ previous = <<>> /\ collections = <<>>
    /\ upserted = <<>> /\ calls = <<>>

SpecRagged == InitRagged /\ [][NextRagged]_vars

\* lines 19-24: the clients are connected, the server has no collection
InitVector ==
    /\ pc = "vector"
    /\ error = "none"
    /\ file_i = 1
    /\ collections = <<>>
    /\ upserted = [n \in CollectionNames |-> {}]
    /\ calls = [p \in Processes |-> NoCall]
    /\ IdleChunk /\ IdleSentence /\ IdleMapper /\ IdleEval /\ IdleRouter
    /\ doc_data = <<>> /\ log = <<>> /\ previous = <<>> /\ strats = <<>> /\ dirs = <<>>

SpecVector == InitVector /\ [][NextVector]_vars

----------------------------------------------------------------------------
(* Claims about the token chunkers *)

CeilDiv(a, b) == (a + b - 1) \div b

\* the ids at the 0-based positions a .. b-1, read one by one
IdsAt(ids, a, b) == [j \in 1..(b - a) |-> ids[a + j]]

\* the last n records of a list
LastN(s, n) == SubSeq(s, Len(s) - n + 1, Len(s))

\* the embedding entry handled last was encoded and windowed by fixed_token_chunk
FTChunkedLast ==
    /\ pc \in {"ft_embedding", "returned"}
    /\ emb_i > 1
    /\ config.embedding[emb_i - 1].provider \in {"huggingface", "openai"}

\* C1: for max_tokens > 0 the windows of fixed_token_chunk partition the id
\* sequence: window i is ids[i*max_tokens : min((i+1)*max_tokens, N)], every
\* window but the last has max_tokens ids, the last is non-empty, the windows
\* concatenated are the sequence, one chunk is emitted per window, an empty
\* sequence gives no chunk and no error, and 10 ids with max_tokens = 4 give
\* windows of 4, 4 and 2 ids.
C1_FixedTokenPartition ==
    (FTChunkedLast /\ config.fixed_chunk_size > 0) =>
        LET ids == all_token_ids
            N == Len(ids)
            m == config.fixed_chunk_size
            W == id_chunks
        IN  /\ Len(W) = CeilDiv(N, m)
            /\ \A i \in 1..Len(W) :
                  /\ W[i] = IdsAt(ids, (i - 1) * m, Min(i * m, N))
                  /\ Len(W[i]) >= 1
                  /\ i < Len(W) => Len(W[i]) = m
            /\ Flatten(W) = ids
            /\ Len(chunks) >= Len(W)
            /\ \A i \in 1..Len(W) :
                  LastN(chunks, Len(W))[i].tokens[FTModel(config.embedding[emb_i - 1].provider)]
                      = Len(W[i])
            /\ N = 0 => (W = <<>> /\ error = "none" /\ chunks = <<>>)
            /\ (N = 10 /\ m = 4) => [i \in 1..Len(W) |-> Len(W[i])] = <<4, 4, 2>>

C1_Witness ==
    /\ pc = "returned"
    /\ FTChunkedLast
    /\ config.fixed_chunk_size = 4
    /\ Len(all_token_ids) = 10
    /\ Len(chunks) = 3

\* the windowing loop of sliding_window_chunk has ended for the current entry
SWLoopDone == pc = "sw_loop" /\ ~(start_idx < Len(all_token_ids))

\* C2: with 0 <= overlap < max_tokens, when the windowing loop has ended every
\* token index of a non-empty id sequence lies inside an emitted window, the
\* k-th window lying at the indices from (k-1)*stride on.
C2_SlidingCoverage ==
    (SWLoopDone /\ config.overlap >= 0 /\ Len(all_token_ids) >= 1) =>
        LET stride == config.fixed_chunk_size - config.overlap
        IN  \A i \in 1..Len(all_token_ids) :
                \E k \in 1..Len(id_chunks) :
                    LET s == (k - 1) * stride
                    IN  /\ s < i
                        /\ i <= s + Len(id_chunks[k])
                        /\ id_chunks[k][i - s] = all_token_ids[i]

C2_Witness ==
    /\ SWLoopDone
    /\ config.overlap = 1
    /\ config.fixed_chunk_size = 3
    /\ Len(all_token_ids) = 6
    /\ Len(id_chunks) = 3

\* the embedding entry handled last went through the windowing loop
SWChunkedLast ==
    /\ pc \in {"sw_embedding", "returned"}
    /\ emb_i > 1
    /\ config.embedding[emb_i - 1].provider = "huggingface"
    /\ HFModel \in DOMAIN model_provider_map

\* C3: the windows are ids[s : min(s + max_tokens, N)] for the starts
\* s = 0, stride, 2*stride, ... below N, in that order, while the loop runs and
\* when it has ended; one chunk is emitted per window; 10 ids with
\* max_tokens = 4 and overlap = 2 give 5 windows starting at 0, 2, 4, 6, 8.
C3_SlidingPositions ==
    LET ids == all_token_ids
        N == Len(ids)
        m == config.fixed_chunk_size
        stride == config.fixed_chunk_size - config.overlap
        W == id_chunks
    IN  /\ pc = "sw_loop" =>
              /\ start_idx = Len(W) * stride
              /\ \A k \in 1..Len(W) :
                    /\ (k - 1) * stride < N
                    /\ W[k] = IdsAt(ids, (k - 1) * stride, Min((k - 1) * stride + m, N))
        /\ SWLoopDone =>
              /\ Len(W) = CeilDiv(N, stride)
              /\ (N = 10 /\ m = 4 /\ config.overlap = 2) =>
                    /\ [k \in 1..Len(W) |-> (k - 1) * stride] = <<0, 2, 4, 6, 8>>
                    /\ [k \in 1..Len(W) |-> Len(W[k])] = <<4, 4, 4, 4, 2>>
        /\ SWChunkedLast =>
              /\ Len(chunks) >= Len(W)
              /\ \A k \in 1..Len(W) :
                    /\ LastN(chunks, Len(W))[k].tokens[HFModel] = Len(W[k])
                    /\ LastN(chunks, Len(W))[k].text = Decode(W[k], "huggingface")

C3_Witness ==
    /\ pc = "returned"
    /\ SWChunkedLast
    /\ Len(all_token_ids) = 10
    /\ config.fixed_chunk_size = 4
    /\ config.overlap = 2
    /\ Len(chunks) = 5

----------------------------------------------------------------------------
(* Claims about sentence_aware_chunk *)

\* the sentences whose character span lies inside the chunk's span
SentencesOf(chunk) ==
    SelectSeq(sentence_objs,
              LAMBDA sent : chunk.char_start <= sent[2] /\ sent[3] <= chunk.char_end)

SAGroups == [k \in 1..Len(chunks) |-> SentencesOf(chunks[k])]

\* the count of a sentence: the largest count any configured model gives it
SentCount(sent) ==
    LET counts == {count_tokens(sent[1], model_provider_map[m]) :
                      m \in DOMAIN model_provider_map}
    IN  CHOOSE n \in counts : \A c \in counts : c <= n

GroupCount(group) == SumSeq([i \in 1..Len(group) |-> SentCount(group[i])])

\* C4: the sentence groups of the emitted chunks, in emission order and
\* followed by the buffer, are the sentences handled so far; at return they
\* are the whole sentence list, every sentence lies in exactly one chunk, no
\* chunk is empty, each chunk's text is its sentences joined by one space, and
\* an empty sentence list gives no chunk.
C4_SentencePartition ==
    pc \in {"sa_loop", "returned"} =>
        /\ \A k \in 1..Len(chunks) :
              /\ SAGroups[k] # <<>>
              /\ chunks[k].text =
                     Join([i \in 1..Len(SAGroups[k]) |-> SAGroups[k][i][1]], <<Space>>)
        /\ pc = "sa_loop" =>
              Flatten(SAGroups) \o buffer = SubSeq(sentence_objs, 1, sent_i - 1)
        /\ pc = "returned" =>
              /\ Flatten(SAGroups) = sentence_objs
              /\ \A i \in 1..Len(sentence_objs) :
                    Cardinality({k \in 1..Len(chunks) :
                        /\ chunks[k].char_start <= sentence_objs[i][2]
                        /\ sentence_objs[i][3] <= chunks[k].char_end}) = 1
              /\ sentence_objs = <<>> => chunks = <<>>

C4_Witness ==
    /\ pc = "returned"
    /\ Len(sentence_objs) = 3
    /\ Len(chunks) = 2
    /\ Len(SAGroups[2]) = 2

\* C5: every emitted chunk holds exactly one sentence or sentences whose
\* counts (the largest over the configured models) sum to at most
\* sentence_max_tokens, so that the sum is within the budget for each model
\* alone; a sentence above the budget is alone in its chunk and whole.
C5_SentenceBudget ==
    pc \in {"sa_loop", "returned"} =>
        \A k \in 1..Len(chunks) :
            LET group == SAGroups[k]
            IN  /\ \/ Len(group) = 1
                   \/ /\ GroupCount(group) <= SAMaxTokens
                      /\ \A m \in DOMAIN model_provider_map :
                            SumSeq([i \in 1..Len(group) |->
                                count_tokens(group[i][1], model_provider_map[m])])
                                <= SAMaxTokens
                /\ \A i \in 1..Len(group) :
                      SentCount(group[i]) > SAMaxTokens =>
                          /\ Len(group) = 1
                          /\ chunks[k].text = group[i][1]

C5_Witness ==
    /\ pc = "returned"
    /\ Cardinality(DOMAIN model_provider_map) = 2
    /\ \E k \in 1..Len(chunks) :
          /\ Len(SAGroups[k]) = 1
          /\ SentCount(SAGroups[k][1]) > SAMaxTokens
    /\ \E k \in 1..Len(chunks) : Len(SAGroups[k]) = 2

\* a loop step of sentence_aware_chunk emitted a chunk
SAClosedInStep == Len(chunks') = Len(chunks) + 1

\* C6: a chunk is closed at a sentence exactly when the buffer is non-empty and
\* buffer_tokens + sentence_tokens > sentence_max_tokens; so the count of a
\* chunk plus the count of the first sentence of the next chunk exceeds the
\* budget; three sentences of one token each with budget 2 give the chunks
\* of the first two sentences and of the third.
C6_GreedyStep ==
    [][ (pc = "sa_loop" /\ pc' = "sa_loop") =>
            (SAClosedInStep <=>
                (/\ buffer # <<>>
                 /\ GroupCount(buffer) + SentCount(sentence_objs[sent_i]) > SAMaxTokens)) ]_vars

C6_GreedyChunks ==
    pc \in {"sa_loop", "returned"} =>
        /\ buffer_tokens = GroupCount(buffer)
        /\ \A k \in 1..(Len(chunks) - 1) :
              GroupCount(SAGroups[k]) + SentCount(SAGroups[k + 1][1]) > SAMaxTokens
        /\ (/\ pc = "returned"
            /\ Len(sentence_objs) = 3
            /\ SAMaxTokens = 2
            /\ \A i \in 1..3 : SentCount(sentence_objs[i]) = 1) =>
                /\ Len(chunks) = 2
                /\ SAGroups[1] = SubSeq(sentence_objs, 1, 2)
                /\ SAGroups[2] = SubSeq(sentence_objs, 3, 3)

C6_Greedy == C6_GreedyStep /\ []C6_GreedyChunks

C6_Witness ==
    /\ pc = "returned"
    /\ Len(sentence_objs) = 3
    /\ SAMaxTokens = 2
    /\ \A i \in 1..3 : SentCount(sentence_objs[i]) = 1
    /\ Len(chunks) = 2

----------------------------------------------------------------------------
(* Claims about map_answers_to_chunks *)

\* the normalized form of a text: its characters in lower case, punctuation
\* left out, from the first to the last character that is not white space
Normalized(t) ==
    LET letters == SelectSeq(t, LAMBDA c : c \notin {".", "!", "?"})
        low == [i \in 1..Len(letters) |->
                   IF letters[i] = "A" THEN "a"
                   ELSE IF letters[i] = "B" THEN "b" ELSE letters[i]]
        inked == {i \in 1..Len(low) : low[i] # " "}
    IN  IF inked = {} THEN <<>>
        ELSE SubSeq(low, CHOOSE i \in inked : \A j \in inked : i <= j,
                         CHOOSE i \in inked : \A j \in inked : j <= i)

\* the chunks of a file whose normalized text contains the normalized answer
Containing(file_chunks, answer) ==
    {k \in 1..Len(file_chunks) :
        Contains(Normalized(file_chunks[k].text), Normalized(answer))}

Lowest(S) == CHOOSE k \in S : \A j \in S : k <= j

\* the call of map_answers_to_chunks ended: it returned its labels, or an
\* exception left it
MapEnded == pc \in {"returned", "raised"}

\* the chunk sets of the listing: the JSON files the storage holds
ChunkSets ==
    {f \in 1..Len(storage) : storage[f].name[2] = ".json" /\ storage[f].downloads}

\* the GoldLabel of the QAPair qa for the chunk
LabelOf(qa, chunk) ==
    [question      |-> qa.question,
     gold_chunk_id |-> chunk.chunk_id,
     strategy      |-> chunk.strategy,
     source        |-> chunk.source]

\* C7: when the call has ended, for each QAPair whose normalized answer is
\* not empty and each chunk set of the listing in which a chunk's normalized
\* text contains the normalized answer, the labels hold a GoldLabel for the
\* chunk of lowest index among those chunks, and there is at most one label
\* for each QAPair and chunk set.
C7_FirstMatch ==
    MapEnded =>
        /\ \A f \in ChunkSets : \A j \in 1..Len(qa_pairs) :
              LET found == Containing(storage[f].chunks, qa_pairs[j].answer)
              IN  (Normalized(qa_pairs[j].answer) # <<>> /\ found # {}) =>
                      \E n \in 1..Len(mapped) :
                          mapped[n] = LabelOf(qa_pairs[j], storage[f].chunks[Lowest(found)])
        /\ Len(mapped) <= Cardinality(ChunkSets) * Len(qa_pairs)

\* C8: when the call has ended, every GoldLabel has its gold_chunk_id,
\* strategy and source from one chunk of a chunk set of the listing whose
\* normalized text contains the normalized answer of the label's QAPair; and
\* when the normalized answer of a QAPair is contained in no chunk, there is
\* no label for it and the call raised no error.
C8_LabelSoundness ==
    MapEnded =>
        /\ \A n \in 1..Len(mapped) :
              \E f \in ChunkSets :
                  \E k \in Containing(storage[f].chunks,
                                      qa_pairs[mapped[n].question].answer) :
                      mapped[n] = LabelOf(qa_pairs[mapped[n].question], storage[f].chunks[k])
        /\ \A j \in 1..Len(qa_pairs) :
              (\A f \in ChunkSets : Containing(storage[f].chunks, qa_pairs[j].answer) = {})
                  => /\ \A n \in 1..Len(mapped) : mapped[n].question # qa_pairs[j].question
                     /\ error = "none"

----------------------------------------------------------------------------
(* evaluate_retrieval: hit accounting *)

\* the run of evaluate_retrieval ended: it returned, or an exception left it
EvalEnded == pc \in {"returned", "returned_none", "raised"}

\* the gold labels of the QA files listed from file f on, in listing order
RECURSIVE LabelsFrom(_)
LabelsFrom(f) ==
    IF f > Len(storage) THEN <<>>
    ELSE (IF storage[f].name[2] = "_qa.json" /\ storage[f].downloads
          THEN storage[f].questions ELSE <<>>) \o LabelsFrom(f + 1)

\* the gold set of the run
GoldSet == LabelsFrom(1)

\* embed() and search() answer for the question of the label
Searchable(q) == q.question \in {"first", "second", "third", "missing", "nothing"}

\* the ranks at which the gold chunk id appears in the hits
GoldRanks(hs, gold_chunk_id) ==
    {r \in 1..Len(hs) :
        (IF "chunk_id" \in DOMAIN hs[r].payload THEN hs[r].payload.chunk_id ELSE hs[r].id)
            = gold_chunk_id}

\* the ranks at which the gold chunk of the label q is returned
RanksOf(q) == GoldRanks(Search(q.question), q.gold_chunk_id)

FieldOr0(hit, key) == IF key \in DOMAIN hit.payload THEN hit.payload[key] ELSE 0

CountAt(dist, r) == IF r \in DOMAIN dist THEN dist[r] ELSE 0

\* the labels of the gold set whose gold chunk is among the returned hits
FoundLabels == {k \in 1..Len(GoldSet) : RanksOf(GoldSet[k]) # {}}

\* the sum over the found labels of a field of their first matching hit
FirstHitSum(key) ==
    SumSeq([k \in 1..Len(GoldSet) |->
               IF k \in FoundLabels
               THEN FieldOr0(Search(GoldSet[k].question)[Lowest(RanksOf(GoldSet[k]))], key)
               ELSE 0])

\* C10: when a run over a gold set with answering collaborators has ended,
\* each gold label whose gold chunk id first appears in its hits at rank r
\* has added exactly 1 to found_in_top_k, exactly 1 to rank_distribution[r]
\* and to no other rank, exactly 1/r to the mean_reciprocal_rank accumulator
\* and the latency and cost of the hit at rank r to the totals, once, however
\* often the chunk id occurs at later ranks.
C10_HitAccounting ==
    (/\ EvalEnded
     /\ \A k \in 1..Len(GoldSet) : Searchable(GoldSet[k])) =>
        LET o == metrics.overall
        IN  /\ o.found_in_top_k = Cardinality(FoundLabels)
            /\ \A r \in 1..TopK :
                  CountAt(o.rank_distribution, r) =
                      Cardinality({k \in FoundLabels : Lowest(RanksOf(GoldSet[k])) = r})
            /\ o.mean_reciprocal_rank.num =
                  SumSeq([k \in 1..Len(GoldSet) |->
                             IF k \in FoundLabels
                             THEN MRRScale \div Lowest(RanksOf(GoldSet[k])) ELSE 0])
            /\ o.total_latency_ms = FirstHitSum("latency")
            /\ o.total_cost = FirstHitSum("cost")

----------------------------------------------------------------------------
(* evaluate_retrieval: zero labels, misses, failing collaborators *)

\* C11: when files were listed and the gold set holds no label at all, the
\* run of evaluate_retrieval does not raise; it returns metrics whose
\* recall_at_k and mean_reciprocal_rank are zero.
C11_ZeroLabels ==
    (EvalEnded /\ storage # <<>> /\ GoldSet = <<>>) =>
        /\ pc = "returned"
        /\ metrics.overall.recall_at_k.num = 0
        /\ metrics.overall.mean_reciprocal_rank.num = 0

\* the sum of 1/rank over the finds of an entry, in units of 1 / MRRScale
ReciprocalRankSum(m) ==
    SumSeq([r \in 1..TopK |-> CountAt(m.rank_distribution, r) * (MRRScale \div r)])

\* the rates of lines 229-242 hold in the entry m
RatesOf(m) ==
    /\ m.recall_at_k = Fraction(m.found_in_top_k, m.total)
    /\ m.mean_reciprocal_rank = Fraction(ReciprocalRankSum(m), MRRScale * m.total)

\* C12: when a run over a gold set with answering collaborators has ended,
\* every label of the gold set counts one question, a label whose gold chunk
\* id is not among the returned hits adds nothing to found_in_top_k, and the
\* run returns recall_at_k = found_in_top_k / total questions and
\* mean_reciprocal_rank = the sum of 1/rank over the finds / total questions.
C12_MissAccounting ==
    (/\ EvalEnded
     /\ GoldSet # <<>>
     /\ \A k \in 1..Len(GoldSet) : Searchable(GoldSet[k])) =>
        /\ pc = "returned"
        /\ metrics.overall.total = Len(GoldSet)
        /\ metrics.overall.found_in_top_k = Len(GoldSet) -
              Cardinality({k \in 1..Len(GoldSet) : RanksOf(GoldSet[k]) = {}})
        /\ RatesOf(metrics.overall)

\* C13: when embed() or search() fails for a label of the gold set, the run
\* goes on with the next question and returns metrics over the remaining
\* questions: the failed question is not in the denominator.
C13_FailureSkipsQuestion ==
    (/\ EvalEnded
     /\ \E k \in 1..Len(GoldSet) : ~Searchable(GoldSet[k])) =>
        /\ pc = "returned"
        /\ metrics.overall.total =
              Cardinality({k \in 1..Len(GoldSet) : Searchable(GoldSet[k])})

----------------------------------------------------------------------------
(* chunk records: ids, offsets, rejected configurations *)

\* C14: no two chunk records of the list a chunker call builds have the same
\* chunk_id, whatever the number of embedding entries of the configuration.
C14_UniqueChunkIds ==
    \A i, j \in 1..Len(chunks) :
        i # j => chunks[i].chunk_id # chunks[j].chunk_id

\* C15: the sequence number in the chunk_id of the n-th emitted chunk is n:
\* it starts at 1 and increases by 1 per chunk in emission order.
C15_SequentialNumbering ==
    \A n \in 1..Len(chunks) : chunks[n].chunk_id[3] = n

\* C16: every chunk of the list has char_start <= char_end and a span as long
\* as its decoded text, the first chunk starts at 0, each next chunk starts
\* at the previous char_end + 1, so the starts never decrease.
C16_Offsets ==
    \A n \in 1..Len(chunks) :
        /\ chunks[n].char_start <= chunks[n].char_end
        /\ chunks[n].char_end - chunks[n].char_start = Len(chunks[n].text)
        /\ n = 1 => chunks[n].char_start = 0
        /\ n > 1 => /\ chunks[n].char_start = chunks[n - 1].char_end + 1
                    /\ chunks[n - 1].char_start <= chunks[n].char_start

\* C17: a configuration whose overlap is negative or not smaller than
\* fixed_chunk_size ends sliding_window_chunk with an error before any
\* tokenization: no ids, no window, no chunk.
C17_InvalidOverlapRejected ==
    (config.overlap < 0 \/ config.overlap >= config.fixed_chunk_size) =>
        /\ pc \in {"sw_start", "raised"}
        /\ all_token_ids = <<>> /\ id_chunks = <<>> /\ chunks = <<>>

\* C18: with fixed_chunk_size <= 0 fixed_token_chunk never returns a chunk
\* list; it ends with an error.
C18_NonPositiveSizeRejected ==
    config.fixed_chunk_size <= 0 => pc # "returned"

\* C20: fixed_token_chunk returns only when every provider of the
\* configuration is one the tokenizer adapter knows; an unknown provider
\* ends the call with an error.
C20_UnknownProviderFatal ==
    pc = "returned" =>
        \A k \in 1..Len(config.embedding) : KnownProvider(config.embedding[k].provider)

----------------------------------------------------------------------------
(* routing *)

\* the document string of a routed call: its sentences one space apart
RoutedText == Join(text, <<Space>>)

\* the chunk list fixed_token_chunk builds for the routed text with a
\* configuration of one huggingface embedding entry
RoutedFixedTokenChunks ==
    DecodeChunks(IdChunks(Encode(RoutedText, "huggingface"), config.fixed_chunk_size),
                 0, 0, doc_id, "ft", "fixed_token", HFModel, "huggingface")

\* C19: a routed call for the strategy fixed_token does not fail in the
\* router and returns exactly the chunk list fixed_token_chunk produces for
\* the text, the document id and the configuration.
C19_RouterDispatch ==
    route_strategy = "fixed_token" =>
        /\ error # "TypeError"
        /\ pc = "returned" => chunks = RoutedFixedTokenChunks

----------------------------------------------------------------------------
(* run_chunking: validation and the per-file loop *)

\* the document lacks a field, its text is not a string, or its text is
\* empty or white space only
DocumentInvalid ==
    \/ doc_data.fields # {"text", "source"}
    \/ ~doc_data.text_is_str
    \/ \A k \in 1..Len(text) : \A n \in 1..Len(text[k]) : text[k][n] = Space

\* C21: process_document rejects an invalid document with an error in its
\* first step: chunk_text is not called, no chunker runs, nothing is stored.
C21_ValidatedBeforeChunking ==
    [][(pc = "process_document" /\ DocumentInvalid)
          => /\ pc' = "raised"
             /\ error' = "ValueError"
             /\ UNCHANGED <<chunks, storage, all_token_ids, id_chunks, sentVars>>]_vars

\* a document without 'source' was rejected although the configuration and
\* the strategy were valid
C21_Witness ==
    /\ pc = "raised"
    /\ error = "ValueError"
    /\ doc_data.fields = {"text"}
    /\ text # <<>> /\ ~IsBlank(text)
    /\ validate_config(config) = "none"
    /\ route_strategy \in StrategyNames
    /\ chunks = <<>>


\* the outcome main logs for a listed file: a name that is not JSON is
\* skipped, the download call of every other file raises TypeError
ExpectedOutcome(f) ==
    IF f.name[2] # ".json" THEN "skipped" ELSE "TypeError"

\* C22: in run_chunking.main each listed file is handled once, in listing
\* order, its failure is logged and the loop goes on: the run returns only
\* after every file of the listing was handled, and it exits early only for a
\* failure outside the loop (an invalid configuration).
C22_FailuresDoNotStop ==
    /\ \A k \in 1..Len(log) :
          log[k] = [file |-> k, outcome |-> ExpectedOutcome(storage[k])]
    /\ pc \in {"main_files", "raised"} => Len(log) = file_i - 1
    /\ pc = "returned" => Len(log) = Len(storage)
    /\ pc = "exited" => (log = <<>> /\ config.overlap >= config.fixed_chunk_size)

\* a run returned after a file whose handling failed and a later file whose
\* handling failed too
C22_Witness ==
    /\ pc = "returned"
    /\ Len(log) = 2
    /\ log[1].outcome = "TypeError"
    /\ storage[2] # storage[1] /\ log[2].outcome = "TypeError"


SameInputs(a, b) ==
    /\ a.chunker = b.chunker
    /\ a.text = b.text
    /\ a.doc_id = b.doc_id
    /\ a.config = b.config
    /\ a.model_provider_map = b.model_provider_map

\* C23: two calls of the same chunker with the same text, doc_id, config and
\* model_provider_map end the same way, with the same list of chunks or the
\* same exception, whatever calls ran before or between them.
C23_Deterministic ==
    \A i, j \in 1..Len(previous) :
        SameInputs(previous[i], previous[j]) =>
            /\ previous[i].result = previous[j].result
            /\ previous[i].raised = previous[j].raised

\* the first and the third call had the same arguments and returned chunks,
\* the call between them was another one that returned chunks too
C23_Witness ==
    /\ Len(previous) = 3
    /\ SameInputs(previous[1], previous[3])
    /\ ~SameInputs(previous[1], previous[2])
    /\ previous[1].chunker = "fixed_token"
    /\ Len(previous[1].result) > 1
    /\ previous[2].result # <<>>


\* C24: with overlap < max_tokens the windowing loop of sliding_window_chunk
\* always ends, and the step that leaves it is the first one at which the
\* start index is at or past the number of ids N, ceil(N / stride) windows
\* having been emitted.
C24_LoopTerminates ==
    /\ (pc = "sw_loop") ~> (pc = "sw_embedding")
    /\ [][(pc = "sw_loop" /\ pc' # "sw_loop") =>
            LET N == Len(all_token_ids)
                stride == config.fixed_chunk_size - config.overlap
            IN  /\ config.overlap < config.fixed_chunk_size
                /\ pc' = "sw_embedding"
                /\ start_idx >= N
                /\ id_chunks # <<>> => start_idx - stride < N
                /\ Len(id_chunks) = CeilDiv(N, stride)
                /\ id_chunks' = id_chunks]_vars

\* the loop was left after three windows, the start index past the last id
C24_Witness ==
    /\ pc = "sw_embedding"
    /\ emb_i = 2
    /\ config.embedding[1].provider = "huggingface"
    /\ HFModel \in DOMAIN model_provider_map
    /\ config.overlap > 0
    /\ Len(id_chunks) = 3
    /\ start_idx > Len(all_token_ids)


\* the sum of a count over the strategy entries
RECURSIVE SumOverStrategies(_, _)
SumOverStrategies(sts, key) ==
    IF sts = {} THEN 0
    ELSE LET st == CHOOSE x \in sts : TRUE
         IN  metrics.by_strategy[st][key] + SumOverStrategies(sts \ {st}, key)

\* the labels of the gold set made with the strategy st
LabelsOfStrategy(st) == {k \in 1..Len(GoldSet) : GoldSet[k].strategy = st}

\* C25: when a run over a gold set with answering collaborators has ended,
\* each label of the gold set is counted in the entry of its strategy and in
\* no other, every count of the overall entry is the sum of that count over
\* the strategy entries, and every returned rate is the quotient of the
\* summed counts.
C25_MergedBySumming ==
    (/\ EvalEnded
     /\ GoldSet # <<>>
     /\ \A k \in 1..Len(GoldSet) : Searchable(GoldSet[k])) =>
        LET sts == DOMAIN metrics.by_strategy
            o == metrics.overall
        IN  /\ pc = "returned"
            /\ sts = {GoldSet[k].strategy : k \in 1..Len(GoldSet)}
            /\ \A st \in sts :
                  /\ metrics.by_strategy[st].total = Cardinality(LabelsOfStrategy(st))
                  /\ RatesOf(metrics.by_strategy[st])
            /\ o.total = SumOverStrategies(sts, "total")
            /\ o.found_in_top_k = SumOverStrategies(sts, "found_in_top_k")
            /\ o.recall_at_k = Fraction(SumOverStrategies(sts, "found_in_top_k"),
                                        SumOverStrategies(sts, "total"))


C27_UpsertsAccumulate ==
    (\A p \in Processes : calls[p] = NoCall) =>
        \A name \in CollectionNames :
            upserted[name] # {} =>
                /\ name \in DOMAIN collections
                /\ upserted[name] \subseteq collections[name]


----------------------------------------------------------------------------
(* sliding window against fixed token *)

\* the chunk list fixed_token_chunk builds for the text and the embedding
\* entries embs (fixed_token.py lines 8-56)
RECURSIVE FixedTokenChunksOf(_)
FixedTokenChunksOf(embs) ==
    IF embs = <<>> THEN <<>>
    ELSE LET provider == Head(embs).provider
         IN  (IF provider \in {"huggingface", "openai"}
              THEN DecodeChunks(IdChunks(Encode(text, provider), config.fixed_chunk_size),
                                0, 0, doc_id, "ft", "fixed_token",
                                FTModel(provider), provider)
              ELSE <<>>)
             \o FixedTokenChunksOf(Tail(embs))

\* the windows of a chunk list: text, offsets and token counts
WindowsOf(cs) ==
    [k \in 1..Len(cs) |->
        [text |-> cs[k].text, char_start |-> cs[k].char_start,
         char_end |-> cs[k].char_end, tokens |-> cs[k].tokens]]

\* C29: with overlap = 0 and max_tokens > 0, for embedding entries of the
\* providers fixed_token_chunk supports whose models are in
\* model_provider_map, sliding_window_chunk returns the windows, token counts
\* and offsets fixed_token_chunk returns for the same text and max_tokens.
C29_ZeroOverlapIsFixedToken ==
    (/\ pc = "returned"
     /\ config.overlap = 0
     /\ config.fixed_chunk_size > 0
     /\ \A k \in 1..Len(config.embedding) :
           /\ config.embedding[k].provider \in {"huggingface", "openai"}
           /\ SWModel(config.embedding[k]) \in DOMAIN model_provider_map)
        => WindowsOf(chunks) = WindowsOf(FixedTokenChunksOf(config.embedding))

====
